---- MODULE Spec2Model ----
\* Model of the CoffeeClock controller, "Raspberry Pi (Python)/pi_coffee.py":
\* a single-threaded script that polls a remote service once per cycle,
\* drives a relay through GPIO and shows a clock and a status on a 16x2 LCD.
\* Every statement of the script that reads the wall clock, talks to the
\* network or touches the hardware is one step, so that the wall clock can
\* move between any two of them.
EXTENDS Integers, Sequences, TLC

\* ---------------------------------------------------------------------
\* Bounds of the model
\* ---------------------------------------------------------------------
\* The wall clock is counted in minutes since Thu Jan 01 00:00.
\* It starts two minutes before midnight, so that minute, hour, day of the
\* month and weekday all change within a few ticks.
StartTime == 1438
\* The wall clock stays within this many minutes after StartTime in a run.
MaxTicks == 2
\* The wall clock is set back at most this many times in a run, by a minute
\* each time.
MaxSetBacks == 1
\* The loop runs at most this many complete cycles in a run.
MaxCycles == 3

\* ---------------------------------------------------------------------
\* Program constants
\* ---------------------------------------------------------------------
MinutesPerHour == 60
HoursPerDay == 24
DaysPerWeek == 7
DaysPerYear == 365

\* Response bodies the remote service may answer with.
Bodies == {"1", "0", "", "true", "11", "1 "}

VARIABLES
    pc,          \* position of the script
    brewing,     \* line 18: the brew flag
    relay,       \* level of the GPIO pin brewPin
    lcdTime,     \* line 35: clock text
    brewString,  \* line 36: status text
    oldMin,      \* line 37: last recorded minute
    data,        \* lines 81, 90: body of the last response
    lcd,         \* text on the display since its last clear
    now,         \* the wall clock, in minutes
    cyc,         \* history of the current cycle
    prev,        \* history of the previous cycle
    total        \* history of the whole run

vars == <<pc, brewing, relay, lcdTime, brewString, oldMin, data, lcd, now,
          cyc, prev, total>>

\* ---------------------------------------------------------------------
\* strftime
\* ---------------------------------------------------------------------
Weekdays == <<"Thu", "Fri", "Sat", "Sun", "Mon", "Tue", "Wed">>
Months == <<"Jan", "Feb", "Mar", "Apr", "May", "Jun",
            "Jul", "Aug", "Sep", "Oct", "Nov", "Dec">>
MonthLen == <<31, 28, 31, 30, 31, 30, 31, 31, 30, 31, 30, 31>>

\* "%02d"
Pad2(n) == IF n < 10 THEN "0" \o ToString(n) ELSE ToString(n)

\* Month (1..12) and day of the month (1..31) of the d-th day of a year,
\* d counted from 0, searching from month m.
RECURSIVE MonthDay(_, _)
MonthDay(d, m) ==
    IF d < MonthLen[m] THEN <<m, d + 1>> ELSE MonthDay(d - MonthLen[m], m + 1)

\* strftime("%M") at wall-clock time t
StrfMinute(t) == Pad2(t % MinutesPerHour)

\* strftime("%a %b %d %H:%M") at wall-clock time t
StrfFull(t) ==
    LET day == t \div (MinutesPerHour * HoursPerDay)
        md  == MonthDay(day % DaysPerYear, 1)
    IN  Weekdays[(day % DaysPerWeek) + 1] \o " " \o Months[md[1]] \o " "
        \o Pad2(md[2]) \o " "
        \o Pad2((t \div MinutesPerHour) % HoursPerDay) \o ":" \o StrfMinute(t)

\* ---------------------------------------------------------------------
\* Pieces of the script
\* ---------------------------------------------------------------------
\* Line 69: the splash text, a byte string of 13 bytes: "Karen 1.1 " and the
\* three bytes e2 99 a5 that encode the heart U+2665 in UTF-8 (line 1 of the
\* script declares that coding). Each byte is one character of the string
\* here, the last three being the characters U+00E2, U+0099 and U+00A5.
Splash == "Karen 1.1 â¥"

\* The same path in both states.
Endpoint_Fixed(b) == "/should_brew"

\* Lines 78, 79, 88: the path queried when the brew flag is b.
Endpoint(b) == IF b THEN "/should_stop" ELSE "/should_brew"

\* A prefix test in place of the exact match of lines 83, 92.
IsAffirmative_Prefix(body) == body \in {"1", "11", "1 "}

\* Lines 83, 92: the test of the response body.
IsAffirmative(body) == body = "1"

\* A refresh in every cycle.
MinuteChanged_Always(m, old) == TRUE

\* Line 99: the test that starts a clock refresh; m is strftime("%M").
MinuteChanged(m, old) == m # old

\* Line 44: the text update_LCD writes.
Message(time, status) == time \o "\n" \o status

\* The level the relay is meant to have when the brew flag is b.
LevelOf(b) == IF b THEN "HIGH" ELSE "LOW"

\* The status text that goes with the brew flag b.
TextOf(b) == IF b THEN "Brewing" ELSE "Not brewing"

\* History of a cycle that starts now.
NewCycle(b, time, old) ==
    [start    |-> b,       \* brew flag at the start of the cycle
     lcdTime0 |-> time,    \* clock text at the start of the cycle
     oldMin0  |-> old,     \* recorded minute at the start of the cycle
     queries  |-> <<>>,    \* paths queried in the cycle
     failed   |-> FALSE,   \* the network call raised in the cycle
     affirm   |-> FALSE,   \* the test of line 83 or 92 succeeded
     drives   |-> <<>>,    \* levels the relay was driven to in the cycle
     writes   |-> <<>>,    \* texts written to the display in the cycle
     flips    |-> 0,       \* assignments that changed the brew flag
     minRead  |-> "none",  \* what line 99 read, once it ran
     moved    |-> FALSE]   \* the wall clock changed during the cycle

NoCycle == NewCycle(FALSE, "", "")

\* What is kept of a cycle once the next one has begun.
Summary(c) ==
    [start     |-> c.start,                \* brew flag at its start
     affirm    |-> c.affirm,               \* outcome of its body test
     moved     |-> c.moved,                \* the wall clock changed in it
     refreshed |-> c.minRead # c.oldMin0,  \* it refreshed the clock
     drives    |-> c.drives]               \* levels it drove the relay to

Init ==
    /\ pc = "boot"
    /\ brewing = FALSE
    /\ relay \in {"LOW", "HIGH"}
    /\ lcdTime = ""
    /\ brewString = ""
    /\ oldMin = ""
    /\ data = ""
    /\ lcd = ""
    /\ now = StartTime
    /\ cyc = NoCycle
    /\ prev = Summary(NoCycle)
    /\ total = [drives |-> 0, flips |-> 0, cycles |-> 0, setbacks |-> 0]

\* The wall clock that strftime reads moves by a minute between any two
\* steps of the script: forward as time passes, or backward when the system
\* time is set back. Several such steps in a row make a larger jump.
Tick ==
    /\ pc \notin {"boot", "exit"}
    /\ \/ /\ now < StartTime + MaxTicks
          /\ now' = now + 1
          /\ total' = total
       \/ /\ now > StartTime
          /\ total.setbacks < MaxSetBacks
          /\ now' = now - 1
          /\ total' = [total EXCEPT !.setbacks = @ + 1]
    /\ cyc' = [cyc EXCEPT !.moved = TRUE]
    /\ UNCHANGED <<pc, brewing, relay, lcdTime, brewString, oldMin, data, lcd,
                   prev>>

\* Start-up without line 28: the relay keeps its power-on level.
Startup_NoForceLow ==
    /\ pc = "boot"
    /\ brewing' = FALSE
    /\ lcd' = "Not brewing" \o Splash
    /\ lcdTime' = ""
    /\ brewString' = "Not brewing"
    /\ oldMin' = ""
    /\ pc' = "request"
    /\ cyc' = NewCycle(FALSE, "", "")
    /\ UNCHANGED <<relay, data, now, prev, total>>

\* Start-up that records the current minute at line 37.
Startup_MinuteKnown ==
    /\ pc = "boot"
    /\ brewing' = FALSE
    /\ relay' = "LOW"
    /\ lcd' = "Not brewing" \o Splash
    /\ lcdTime' = ""
    /\ brewString' = "Not brewing"
    /\ oldMin' = StrfMinute(now)
    /\ pc' = "request"
    /\ cyc' = NewCycle(FALSE, "", StrfMinute(now))
    /\ UNCHANGED <<data, now, prev, total>>

\* Lines 11-70: start-up, up to the first evaluation of "while True".
Startup ==
    /\ pc = "boot"
    /\ brewing' = FALSE
    /\ relay' = "LOW"
    /\ lcd' = "Not brewing" \o Splash
    /\ lcdTime' = ""
    /\ brewString' = "Not brewing"
    /\ oldMin' = ""
    /\ pc' = "request"
    /\ cyc' = NewCycle(FALSE, "", "")
    /\ UNCHANGED <<data, now, prev, total>>

\* update_LCD, lines 42-44: clear the display and write both lines.
\* The operator gives the history of the cycle after the write; the display
\* itself then holds Message(lcdTime, brewString).
Written(c, text) == [c EXCEPT !.writes = Append(@, text)]

\* Lines 75-79 and 88: open the connection and send the request for the path
\* chosen by the brew flag at line 78.
Request ==
    /\ pc = "request"
    /\ cyc' = [cyc EXCEPT !.queries = Append(@, Endpoint(brewing))]
    /\ pc' = "response"
    /\ UNCHANGED <<brewing, relay, lcdTime, brewString, oldMin, data, lcd,
                   now, prev, total>>

\* Lines 80-81 and 89-90: read the response; any body may come back.
Response ==
    /\ pc = "response"
    /\ \E body \in Bodies : data' = body
    /\ pc' = "decide"
    /\ UNCHANGED <<brewing, relay, lcdTime, brewString, oldMin, lcd, now,
                   cyc, prev, total>>

\* Lines 79-81 and 88-90 raise (timeout, connection error). Nothing in the
\* script catches the exception: the interpreter prints it and exits.
NetworkError ==
    /\ pc \in {"request", "response"}
    /\ cyc' = [cyc EXCEPT !.failed = TRUE]
    /\ pc' = "exit"
    /\ UNCHANGED <<brewing, relay, lcdTime, brewString, oldMin, data, lcd,
                   now, prev, total>>

\* The stop branch without the test of line 92.
Decide_StopUnconditional ==
    /\ pc = "decide"
    /\ pc' = IF brewing THEN "stop_gpio"
             ELSE IF IsAffirmative(data) THEN "start_gpio" ELSE "close"
    /\ cyc' = [cyc EXCEPT !.affirm = IsAffirmative(data)]
    /\ UNCHANGED <<brewing, relay, lcdTime, brewString, oldMin, data, lcd,
                   now, prev, total>>

\* Lines 83 and 92: test the body. The branch of line 78 was taken on the
\* same value of the brew flag, which no step in between assigns.
Decide ==
    /\ pc = "decide"
    /\ pc' = IF IsAffirmative(data)
             THEN (IF brewing THEN "stop_gpio" ELSE "start_gpio")
             ELSE "close"
    /\ cyc' = [cyc EXCEPT !.affirm = IsAffirmative(data)]
    /\ UNCHANGED <<brewing, relay, lcdTime, brewString, oldMin, data, lcd,
                   now, prev, total>>

\* start_brewing that sets the status text and renders where line 50 is,
\* leaving the relay alone.
StartGpio_RenderFirst ==
    /\ pc = "start_gpio"
    /\ brewString' = "Brewing"
    /\ lcd' = Message(lcdTime, brewString')
    /\ cyc' = Written(cyc, lcd')
    /\ pc' = "start_flag"
    /\ UNCHANGED <<brewing, relay, lcdTime, oldMin, data, now, prev, total>>

\* start_brewing without line 50.
StartGpio_Skipped ==
    /\ pc = "start_gpio"
    /\ pc' = "start_flag"
    /\ UNCHANGED <<brewing, relay, lcdTime, brewString, oldMin, data, lcd,
                   now, cyc, prev, total>>

\* Line 50, start_brewing: GPIO.output(brewPin, GPIO.HIGH)
StartGpio ==
    /\ pc = "start_gpio"
    /\ relay' = "HIGH"
    /\ cyc' = [cyc EXCEPT !.drives = Append(@, "HIGH")]
    /\ total' = [total EXCEPT !.drives = @ + 1]
    /\ pc' = "start_flag"
    /\ UNCHANGED <<brewing, lcdTime, brewString, oldMin, data, lcd, now, prev>>

\* Line 52, start_brewing: brewing = True
StartFlag ==
    /\ pc = "start_flag"
    /\ brewing' = TRUE
    /\ cyc' = [cyc EXCEPT !.flips = IF brewing THEN @ ELSE @ + 1]
    /\ total' = [total EXCEPT !.flips = IF brewing THEN @ ELSE @ + 1]
    /\ pc' = "start_text"
    /\ UNCHANGED <<relay, lcdTime, brewString, oldMin, data, lcd, now, prev>>

\* start_brewing with the status text of stop_brewing.
StartText_Wrong ==
    /\ pc = "start_text"
    /\ brewString' = "Not brewing"
    /\ pc' = "start_lcd"
    /\ UNCHANGED <<brewing, relay, lcdTime, oldMin, data, lcd, now, cyc,
                   prev, total>>

\* Line 54, start_brewing: brewString = "Brewing"
StartText ==
    /\ pc = "start_text"
    /\ brewString' = "Brewing"
    /\ pc' = "start_lcd"
    /\ UNCHANGED <<brewing, relay, lcdTime, oldMin, data, lcd, now, cyc,
                   prev, total>>

\* The loop with "if brewing:" in place of "else:" at line 87: after
\* start_brewing the stop branch runs in the same cycle.
StartLcd_FallsThrough ==
    /\ pc = "start_lcd"
    /\ lcd' = Message(lcdTime, brewString)
    /\ cyc' = Written(cyc, lcd')
    /\ pc' = "request"
    /\ UNCHANGED <<brewing, relay, lcdTime, brewString, oldMin, data, now,
                   prev, total>>

\* start_brewing without line 55.
StartLcd_Skipped ==
    /\ pc = "start_lcd"
    /\ pc' = "close"
    /\ UNCHANGED <<brewing, relay, lcdTime, brewString, oldMin, data, lcd,
                   now, cyc, prev, total>>

\* Line 55, start_brewing: update_LCD()
StartLcd ==
    /\ pc = "start_lcd"
    /\ lcd' = Message(lcdTime, brewString)
    /\ cyc' = Written(cyc, lcd')
    /\ pc' = "close"
    /\ UNCHANGED <<brewing, relay, lcdTime, brewString, oldMin, data, now,
                   prev, total>>

\* Line 61, stop_brewing: GPIO.output(brewPin, GPIO.LOW)
StopGpio ==
    /\ pc = "stop_gpio"
    /\ relay' = "LOW"
    /\ cyc' = [cyc EXCEPT !.drives = Append(@, "LOW")]
    /\ total' = [total EXCEPT !.drives = @ + 1]
    /\ pc' = "stop_flag"
    /\ UNCHANGED <<brewing, lcdTime, brewString, oldMin, data, lcd, now, prev>>

\* Line 63, stop_brewing: brewing = False
StopFlag ==
    /\ pc = "stop_flag"
    /\ brewing' = FALSE
    /\ cyc' = [cyc EXCEPT !.flips = IF brewing THEN @ + 1 ELSE @]
    /\ total' = [total EXCEPT !.flips = IF brewing THEN @ + 1 ELSE @]
    /\ pc' = "stop_text"
    /\ UNCHANGED <<relay, lcdTime, brewString, oldMin, data, lcd, now, prev>>

\* stop_brewing without line 65.
StopText_Skipped ==
    /\ pc = "stop_text"
    /\ pc' = "stop_lcd"
    /\ UNCHANGED <<brewing, relay, lcdTime, brewString, oldMin, data, lcd,
                   now, cyc, prev, total>>

\* Line 65, stop_brewing: brewString = "Not brewing"
StopText ==
    /\ pc = "stop_text"
    /\ brewString' = "Not brewing"
    /\ pc' = "stop_lcd"
    /\ UNCHANGED <<brewing, relay, lcdTime, oldMin, data, lcd, now, cyc,
                   prev, total>>

\* stop_brewing without line 66.
StopLcd_Skipped ==
    /\ pc = "stop_lcd"
    /\ pc' = "close"
    /\ UNCHANGED <<brewing, relay, lcdTime, brewString, oldMin, data, lcd,
                   now, cyc, prev, total>>

\* Line 66, stop_brewing: update_LCD()
StopLcd ==
    /\ pc = "stop_lcd"
    /\ lcd' = Message(lcdTime, brewString)
    /\ cyc' = Written(cyc, lcd')
    /\ pc' = "close"
    /\ UNCHANGED <<brewing, relay, lcdTime, brewString, oldMin, data, now,
                   prev, total>>

\* Line 96: conn.close()
Close ==
    /\ pc = "close"
    /\ pc' = "clock"
    /\ UNCHANGED <<brewing, relay, lcdTime, brewString, oldMin, data, lcd,
                   now, cyc, prev, total>>

\* Line 99: if strftime("%M") != oldMin
ClockTest ==
    /\ pc = "clock"
    /\ cyc' = [cyc EXCEPT !.minRead = StrfMinute(now)]
    /\ pc' = IF MinuteChanged(StrfMinute(now), oldMin)
             THEN "clock_text" ELSE "sleep"
    /\ UNCHANGED <<brewing, relay, lcdTime, brewString, oldMin, data, lcd,
                   now, prev, total>>

\* Line 102: lcdTime = strftime("%a %b %d %H:%M")
ClockText ==
    /\ pc = "clock_text"
    /\ lcdTime' = StrfFull(now)
    /\ pc' = "clock_lcd"
    /\ UNCHANGED <<brewing, relay, brewString, oldMin, data, lcd, now, cyc,
                   prev, total>>

\* Line 105: update_LCD()
ClockLcd ==
    /\ pc = "clock_lcd"
    /\ lcd' = Message(lcdTime, brewString)
    /\ cyc' = Written(cyc, lcd')
    /\ pc' = "clock_min"
    /\ UNCHANGED <<brewing, relay, lcdTime, brewString, oldMin, data, now,
                   prev, total>>

\* Line 108: oldMin = strftime("%M")
ClockMin ==
    /\ pc = "clock_min"
    /\ oldMin' = StrfMinute(now)
    /\ pc' = "sleep"
    /\ UNCHANGED <<brewing, relay, lcdTime, brewString, data, lcd, now, cyc,
                   prev, total>>

\* The loop with line 18 inside it: every cycle begins with the flag clear.
Sleep_ClearsFlag ==
    /\ pc = "sleep"
    /\ total.cycles < MaxCycles
    /\ total' = [total EXCEPT !.cycles = @ + 1]
    /\ brewing' = FALSE
    /\ prev' = Summary(cyc)
    /\ cyc' = NewCycle(FALSE, lcdTime, oldMin)
    /\ pc' = "request"
    /\ UNCHANGED <<relay, lcdTime, brewString, oldMin, data, lcd, now>>

\* The script without "while True": it ends after the first sleep.
Sleep_Once ==
    /\ pc = "sleep"
    /\ pc' = "exit"
    /\ UNCHANGED <<brewing, relay, lcdTime, brewString, oldMin, data, lcd,
                   now, cyc, prev, total>>

\* Lines 111 and 73: sleep(1.0), then the next cycle begins.
Sleep ==
    /\ pc = "sleep"
    /\ total.cycles < MaxCycles
    /\ total' = [total EXCEPT !.cycles = @ + 1]
    /\ prev' = Summary(cyc)
    /\ cyc' = NewCycle(brewing, lcdTime, oldMin)
    /\ pc' = "request"
    /\ UNCHANGED <<brewing, relay, lcdTime, brewString, oldMin, data, lcd, now>>

Next ==
    \/ Tick
    \/ Startup
    \/ Request
    \/ Response
    \/ NetworkError
    \/ Decide
    \/ StartGpio
    \/ StartFlag
    \/ StartText
    \/ StartLcd
    \/ StopGpio
    \/ StopFlag
    \/ StopText
    \/ StopLcd
    \/ Close
    \/ ClockTest
    \/ ClockText
    \/ ClockLcd
    \/ ClockMin
    \/ Sleep

Spec == Init /\ [][Next]_vars

\* One statement of the script, in a run in which every network call
\* returns a response.
Step ==
    \/ Startup
    \/ Request
    \/ Response
    \/ Decide
    \/ StartGpio
    \/ StartFlag
    \/ StartText
    \/ StartLcd
    \/ StopGpio
    \/ StopFlag
    \/ StopText
    \/ StopLcd
    \/ Close
    \/ ClockTest
    \/ ClockText
    \/ ClockLcd
    \/ ClockMin
    \/ Sleep

NormalNext == Tick \/ Step

\* Normal operation: no network call raises, every query gets its response,
\* and the interpreter, which runs nothing else, always executes the
\* statement it has reached.
FairSpec == Init /\ [][NormalNext]_vars /\ WF_vars(Step)

\* ---------------------------------------------------------------------
\* Positions of the script
\* ---------------------------------------------------------------------
\* Inside start_brewing and stop_brewing.
InTransition == {"start_gpio", "start_flag", "start_text", "start_lcd",
                 "stop_gpio", "stop_flag", "stop_text", "stop_lcd"}
\* After the poll step of the cycle (lines 78-93), up to the sleep.
AfterPoll == {"close", "clock", "clock_text", "clock_lcd", "clock_min", "sleep"}
\* Inside the clock refresh (lines 100-108).
InRefresh == {"clock_text", "clock_lcd", "clock_min"}

\* A step that writes to the display.
DisplayWrite == Len(cyc'.writes) > Len(cyc.writes)

\* ---------------------------------------------------------------------
\* C1. After start-up has forced the relay LOW, and outside the two
\* statements of start_brewing / stop_brewing that lie between the relay
\* command and the assignment of the brew flag, the relay is HIGH exactly
\* when the brew flag is set and LOW exactly when it is clear; in particular
\* at every cycle boundary, whatever the remote responses were.
C1_RelayMatchesBrewState ==
    pc \notin {"boot", "start_flag", "stop_flag"} =>
        /\ relay = LevelOf(brewing)
        /\ (relay = "HIGH") <=> brewing
        /\ (relay = "LOW") <=> ~brewing

\* A third transition has completed and the cycle is about to sleep.
C1_Witness ==
    pc = "sleep" /\ total.flips = 3 /\ brewing /\ relay = "HIGH"

\* ---------------------------------------------------------------------
\* C2. A network failure in a cycle leaves the brew flag and the relay as
\* they were at the start of the cycle and the loop keeps running.
C2_NetworkFailureSurvived ==
    cyc.failed =>
        /\ brewing = cyc.start
        /\ relay = LevelOf(cyc.start)
        /\ pc # "exit"

\* ---------------------------------------------------------------------
\* C3. Once the body of the cycle's response has been tested, a transition
\* is under way or has happened if and only if the body is exactly "1"; for
\* every other body the brew flag is the one the cycle started with, in
\* both states.
C3_ExactMatch ==
    /\ pc \in InTransition => data = "1"
    /\ pc \in AfterPoll =>
          /\ cyc.affirm <=> (data = "1")
          /\ (brewing # cyc.start) <=> (data = "1")
          /\ (cyc.flips = 1) <=> (data = "1")

\* A cycle that began Brewing got the body "1 " and ends Brewing.
C3_Witness ==
    pc = "sleep" /\ data = "1 " /\ cyc.start /\ brewing /\ cyc.flips = 0

\* ---------------------------------------------------------------------
\* C4. A cycle sends no query before its request step and exactly one from
\* then on, to /should_brew if the cycle began Idle and to /should_stop if
\* it began Brewing, also when a transition fires in the cycle.
C4_OneQueryPerCycle ==
    /\ pc = "request" => cyc.queries = <<>>
    /\ pc \in ({"response", "decide"} \cup InTransition \cup AfterPoll) =>
          cyc.queries = <<IF cyc.start THEN "/should_stop" ELSE "/should_brew">>
    /\ Len(cyc.queries) <= 1

\* A cycle that began Brewing and stopped the brew has queried /should_stop
\* only.
C4_Witness ==
    pc = "sleep" /\ cyc.start /\ ~brewing /\ cyc.queries = <<"/should_stop">>

\* ---------------------------------------------------------------------
\* C5. After the poll step of a cycle whose response body was "1", the brew
\* flag is the opposite of the one the cycle began with, the relay was
\* driven once, to the level of the new state, the status text is the one
\* of the new state, and the display was written in the transition with
\* the clock text of that moment and the new status text.
C5_AffirmativeFlips ==
    (pc \in AfterPoll /\ data = "1") =>
        /\ brewing = ~cyc.start
        /\ relay = LevelOf(brewing)
        /\ cyc.drives = <<LevelOf(brewing)>>
        /\ brewString = TextOf(brewing)
        /\ brewString = (IF cyc.start THEN "Not brewing" ELSE "Brewing")
        /\ Len(cyc.writes) >= 1
        /\ cyc.writes[1] = Message(cyc.lcdTime0, TextOf(brewing))
        /\ pc = "close" => lcd = Message(lcdTime, TextOf(brewing))

\* A brew has just been stopped and the display shows the clock and
\* "Not brewing".
C5_Witness ==
    /\ pc = "close" /\ data = "1" /\ cyc.start /\ ~brewing /\ relay = "LOW"
    /\ lcdTime # "" /\ lcd = Message(lcdTime, "Not brewing")

\* ---------------------------------------------------------------------
\* C6. After the poll step of a cycle whose response body was not "1", the
\* brew flag, the relay and the status text are those of the start of the
\* cycle, the relay was not driven in the cycle, and the display was not
\* written before the clock refresh of the cycle; a write there happens
\* only if line 99 read a minute other than the recorded one.
C6_NegativeChangesNothing ==
    (pc \in AfterPoll /\ data # "1") =>
        /\ brewing = cyc.start
        /\ relay = LevelOf(cyc.start)
        /\ brewString = TextOf(cyc.start)
        /\ cyc.drives = <<>>
        /\ cyc.flips = 0
        /\ pc \in {"close", "clock", "clock_text", "clock_lcd"} =>
              cyc.writes = <<>>
        /\ cyc.writes # <<>> =>
              /\ cyc.minRead # cyc.oldMin0
              /\ cyc.writes = <<Message(lcdTime, brewString)>>

\* A Brewing cycle got "0" while the minute changed: the one write of the
\* cycle is the clock's.
C6_Witness ==
    /\ pc = "sleep" /\ data = "0" /\ cyc.start /\ brewing /\ relay = "HIGH"
    /\ Len(cyc.writes) = 1 /\ total.cycles >= 1

\* ---------------------------------------------------------------------
\* The cycle under way and the one before it had the same inputs: no clock
\* movement during either, the same brew flag at the start, the same outcome
\* of the body test.
C7_SameInputsAsPrevious ==
    /\ total.cycles >= 1
    /\ ~prev.moved
    /\ ~cyc.moved
    /\ prev.start = cyc.start
    /\ prev.affirm = cyc.affirm

\* C7. Every write to the display changes what the display shows: the text
\* written differs from the text written last. And of two cycles in a row
\* during which the wall clock stood in one and the same minute, with the
\* same brew flag at their start and the same outcome of the body test, the
\* second writes nothing to the display.
C7_Debounce ==
    /\ [][DisplayWrite => lcd' # lcd]_vars
    /\ []((pc = "sleep" /\ C7_SameInputsAsPrevious) => cyc.writes = <<>>)

\* ---------------------------------------------------------------------
\* C8. The clock text and the recorded minute keep the values they had at
\* the start of the cycle until the clock refresh; the refresh is entered
\* only if line 99 read a minute other than the recorded one; and a cycle
\* in which line 99 read the recorded minute ends with the clock text and
\* the recorded minute unchanged and with no display write other than the
\* one of a transition.
C8_MinuteBoundary ==
    /\ pc \in ({"request", "response", "decide", "close", "clock"}
                 \cup InTransition) =>
          /\ lcdTime = cyc.lcdTime0
          /\ oldMin = cyc.oldMin0
    /\ pc \in InRefresh => cyc.minRead # cyc.oldMin0
    /\ (pc = "sleep" /\ cyc.minRead = cyc.oldMin0) =>
          /\ lcdTime = cyc.lcdTime0
          /\ oldMin = cyc.oldMin0
          /\ Len(cyc.writes) = cyc.flips

\* Two cycles in a row found the minute unchanged.
C8_Witness ==
    /\ pc = "sleep" /\ cyc.minRead = cyc.oldMin0
    /\ ~prev.refreshed /\ total.cycles >= 1 /\ lcdTime # ""

\* ---------------------------------------------------------------------
\* C9. Outside the statement of start_brewing / stop_brewing that lies
\* between the assignment of the brew flag and the assignment of the status
\* text, the status text is "Brewing" if the brew flag is set and
\* "Not brewing" if it is clear; and every write to the display inside the
\* loop shows the status text of the brew flag of that moment.
C9_StatusTextOfState ==
    /\ [](pc \notin {"boot", "start_text", "stop_text"} =>
             brewString = TextOf(brewing))
    /\ [][DisplayWrite => lcd' = Message(lcdTime, TextOf(brewing))]_vars

\* After a start and a stop the status text is back to "Not brewing".
C9_Witness ==
    /\ pc = "request" /\ total.flips = 2 /\ ~brewing
    /\ brewString = "Not brewing"

\* ---------------------------------------------------------------------
\* C10. Outside the statement that lies between the relay command and the
\* assignment of the brew flag, the relay commands issued in the loop are
\* as many as the changes of the brew flag, in the cycle and in the run; a
\* cycle drives the relay at most once, and then to the level of the brew
\* flag it ends with.
C10_OneDrivePerTransition ==
    pc \notin {"start_flag", "stop_flag"} =>
        /\ total.drives = total.flips
        /\ Len(cyc.drives) = cyc.flips
        /\ cyc.flips <= 1
        /\ cyc.drives # <<>> => cyc.drives = <<LevelOf(brewing)>>

\* Three cycles in a row have each driven the relay once.
C10_Witness ==
    /\ pc = "sleep" /\ total.drives = 3 /\ total.cycles = 2
    /\ cyc.drives = <<"HIGH">>

\* ---------------------------------------------------------------------
\* C11. In normal operation the script never exits, every cycle that has
\* sent its request reaches its sleep, every sleep below the bound on the
\* number of cycles is followed by the request of another cycle, and the
\* loop reaches the last cycle the bound allows.
C11_LoopNeverEnds ==
    /\ [](pc # "exit")
    /\ (pc = "request") ~> (pc = "sleep")
    /\ (pc = "sleep" /\ total.cycles < MaxCycles) ~> (pc = "request")
    /\ <>(pc = "sleep" /\ total.cycles = MaxCycles)

\* The fourth cycle has sent its request.
C11_Witness ==
    pc = "response" /\ total.cycles = 3 /\ Len(cyc.queries) = 1

\* ---------------------------------------------------------------------
\* C12. The display shows the start-up text of lines 32 and 69 from the end
\* of start-up until the first display write of the first cycle, and only
\* start-up writes it; the first cycle, whatever body its response has,
\* reaches its sleep with the display showing the clock text and the status
\* text, and the start-up text never shows again.
SplashScreen == "Not brewing" \o Splash

C12_SplashOverwrittenInFirstCycle ==
    /\ [](pc = "boot" => lcd = "")
    /\ []((pc # "boot" /\ total.cycles = 0 /\ cyc.writes = <<>>) =>
             lcd = SplashScreen)
    /\ []((pc = "sleep" /\ total.cycles = 0) =>
             /\ Len(cyc.writes) >= 1
             /\ lcdTime # ""
             /\ lcd = Message(lcdTime, brewString)
             /\ lcd # SplashScreen)
    /\ [](total.cycles >= 1 => lcd # SplashScreen)
    /\ [][lcd' = SplashScreen => (pc = "boot" \/ lcd = SplashScreen)]_vars
    /\ [][pc' = "boot" => pc = "boot"]_vars

\* The first cycle got "0" and has replaced the start-up text by the clock
\* and "Not brewing".
C12_Witness ==
    /\ pc = "sleep" /\ total.cycles = 0 /\ data = "0"
    /\ cyc.writes = <<Message(lcdTime, "Not brewing")>>
    /\ lcd = Message(lcdTime, "Not brewing")

\* ---------------------------------------------------------------------
\* C13, as claimed. A cycle that reaches its sleep has written the display
\* at most once, and exactly once if and only if the brew flag or the clock
\* text changed in the cycle; the write shows the clock text and the status
\* text the cycle ends with.
C13_SingleRenderPerCycle ==
    pc = "sleep" =>
        /\ Len(cyc.writes) <= 1
        /\ (Len(cyc.writes) = 1) <=>
              (brewing # cyc.start \/ lcdTime # cyc.lcdTime0)
        /\ cyc.writes # <<>> => cyc.writes = <<Message(lcdTime, brewString)>>

\* C13, amended. A cycle writes the display once at the end of a
\* transition, inside the poll step, if and only if the brew flag changed,
\* with the clock text the cycle began with and the new status text; and
\* once in the clock refresh, if and only if line 99 read a minute other
\* than the recorded one, with the new clock text and the status text. A
\* cycle with both has written twice when it reaches its sleep, the second
\* time with both new texts.
C13_Flipped == brewing # cyc.start
C13_Refreshed == cyc.minRead # cyc.oldMin0

C13_RenderPerChange ==
    /\ pc \in {"request", "response", "decide"} => cyc.writes = <<>>
    /\ pc \in {"close", "clock", "clock_text", "clock_lcd"} =>
          cyc.writes = (IF C13_Flipped
                        THEN <<Message(cyc.lcdTime0, brewString)>> ELSE <<>>)
    /\ pc = "sleep" =>
          cyc.writes =
              (IF C13_Flipped
               THEN <<Message(cyc.lcdTime0, brewString)>> ELSE <<>>)
              \o (IF C13_Refreshed
                  THEN <<Message(lcdTime, brewString)>> ELSE <<>>)

\* A cycle after the first stopped the brew while the minute changed and
\* has written the display twice.
C13_Witness ==
    /\ pc = "sleep" /\ total.cycles >= 1 /\ cyc.start /\ ~brewing
    /\ Len(cyc.writes) = 2 /\ cyc.writes[1] # cyc.writes[2]
    /\ cyc.lcdTime0 # ""

\* ---------------------------------------------------------------------
\* C14. Inside start_brewing and stop_brewing the relay has been driven to
\* the level of the new state before the status text changes and before
\* the display is written: every step that changes the status text, and
\* every display write, finds the relay at the level of the text it sets
\* or shows, HIGH for "Brewing" and LOW for "Not brewing", commanded in the
\* same cycle when the write is the one of a transition.
C14_RelayCommandFirst ==
    /\ [](pc \in {"start_gpio", "stop_gpio"} =>
             /\ cyc.drives = <<>>
             /\ cyc.writes = <<>>
             /\ brewString = TextOf(cyc.start))
    /\ [](pc \in {"start_flag", "start_text", "start_lcd"} =>
             /\ cyc.drives = <<"HIGH">>
             /\ relay = "HIGH")
    /\ [](pc \in {"stop_flag", "stop_text", "stop_lcd"} =>
             /\ cyc.drives = <<"LOW">>
             /\ relay = "LOW")
    /\ [][brewString' # brewString =>
             \/ pc = "boot"
             \/ (brewString' = "Brewing" /\ relay = "HIGH"
                   /\ cyc.drives = <<"HIGH">>)
             \/ (brewString' = "Not brewing" /\ relay = "LOW"
                   /\ cyc.drives = <<"LOW">>)]_vars
    /\ [][DisplayWrite =>
             \/ (brewString = "Brewing" /\ relay = "HIGH")
             \/ (brewString = "Not brewing" /\ relay = "LOW")]_vars

\* stop_brewing is about to write "Not brewing" with the relay already LOW.
C14_Witness ==
    /\ pc = "stop_lcd" /\ relay = "LOW" /\ cyc.drives = <<"LOW">>
    /\ brewString = "Not brewing" /\ cyc.writes = <<>>

\* ---------------------------------------------------------------------
\* C15. The first cycle begins Idle, with the relay LOW and the status text
\* "Not brewing". The brew flag changes only at lines 52 and 63, the relay
\* only at lines 28, 50 and 61, the status text only at lines 36, 54 and
\* 65; no step after the poll step of a cycle (closing the connection, the
\* clock refresh, its display write, the sleep), no display write of a
\* transition and no advance of the wall clock changes any of the three.
C15_OnlyPollMutates ==
    /\ []((total.cycles = 0 /\ pc \in {"request", "response", "decide"}) =>
             (~brewing /\ relay = "LOW" /\ brewString = "Not brewing"))
    /\ [][brewing' # brewing => pc \in {"start_flag", "stop_flag"}]_vars
    /\ [][relay' # relay => pc \in {"boot", "start_gpio", "stop_gpio"}]_vars
    /\ [][brewString' # brewString =>
             pc \in {"boot", "start_text", "stop_text"}]_vars
    /\ [][(pc \in AfterPoll \/ DisplayWrite) =>
             UNCHANGED <<brewing, relay, brewString>>]_vars

\* A Brewing cycle has refreshed the clock and is about to sleep, still
\* Brewing.
C15_Witness ==
    /\ pc = "sleep" /\ cyc.start /\ brewing /\ relay = "HIGH"
    /\ brewString = "Brewing" /\ Len(cyc.writes) = 1 /\ total.cycles >= 2

\* ---------------------------------------------------------------------
\* C16. From the sleep of the first cycle on, whenever the script is at a
\* sleep or at the start of the next cycle, the display shows the current
\* clock text on line 1 and the status text of the current brew flag on
\* line 2.
C16_DisplayInSyncAcrossSleep ==
    (pc = "sleep" \/ (pc = "request" /\ total.cycles >= 1)) =>
        /\ lcd = Message(lcdTime, brewString)
        /\ lcd = Message(lcdTime, IF brewing THEN "Brewing" ELSE "Not brewing")

\* A brew was stopped in a cycle that did not refresh the clock; the next
\* cycle begins with the display showing the clock and "Not brewing".
C16_Witness ==
    /\ pc = "request" /\ total.cycles >= 2 /\ ~brewing /\ prev.start
    /\ ~prev.refreshed
    /\ lcd = Message(lcdTime, "Not brewing")

\* ---------------------------------------------------------------------
\* C17. When a cycle reaches its sleep, the recorded minute is the minute
\* of the clock text: both come from one and the same wall-clock time.
C17_RecordedMinuteIsShownMinute ==
    pc = "sleep" =>
        \E t \in StartTime..(StartTime + MaxTicks) :
            /\ lcdTime = StrfFull(t)
            /\ oldMin = StrfMinute(t)

\* ---------------------------------------------------------------------
\* C18. No display write of a cycle has an empty clock text on line 1.
C18_ClockLineNeverEmpty ==
    \A i \in 1..Len(cyc.writes) :
        cyc.writes[i] \notin {Message("", "Brewing"),
                              Message("", "Not brewing")}

\* ---------------------------------------------------------------------
\* C19. A cycle changes the brew flag at most once and drives the relay at
\* most once; it drives the relay HIGH only if it began Idle and queried
\* /should_brew, and LOW only if it began Brewing and queried /should_stop,
\* so that a brew is never started and stopped in one cycle and a sleep and
\* a /should_stop query lie between a HIGH command and the next LOW command.
\* Every relay command of the loop changes the level of the relay: HIGH and
\* LOW commands alternate, beginning with HIGH.
C19_RelayCommand == Len(cyc'.drives) > Len(cyc.drives)

C19_OneAlternatingTransitionPerCycle ==
    /\ [](cyc.flips <= 1 /\ Len(cyc.drives) <= 1)
    /\ [](cyc.drives = <<"HIGH">> =>
             (~cyc.start /\ cyc.queries = <<"/should_brew">>))
    /\ [](cyc.drives = <<"LOW">> =>
             (cyc.start /\ cyc.queries = <<"/should_stop">>))
    /\ [][C19_RelayCommand =>
             /\ relay' # relay
             /\ total.drives = 0 => relay' = "HIGH"]_vars
    /\ [][brewing' # brewing => cyc.flips = 0]_vars

\* A brew started in the previous cycle is being stopped in this one.
C19_Witness ==
    /\ pc = "stop_flag" /\ cyc.start /\ cyc.drives = <<"LOW">>
    /\ prev.drives = <<"HIGH">> /\ ~prev.start
    /\ cyc.queries = <<"/should_stop">>

TypeOK ==
    /\ brewing \in BOOLEAN
    /\ relay \in {"LOW", "HIGH"}
    /\ data \in Bodies
    /\ now \in StartTime..(StartTime + MaxTicks)
====
